---- MODULE Spec2Model ----
(***************************************************************************)
(* Recruitment back end: the Job / Application / Interview stores, the     *)
(* request handlers of the three controllers and the routes in front of    *)
(* them.  Handlers are modelled twice where a claim needs it: run to       *)
(* completion (one action per request) and split at their awaits (one      *)
(* action per store operation), both built from the same store operators.  *)
(***************************************************************************)
EXTENDS Integers, Sequences, FiniteSets, TLC

\* ------------------------------------------------------------------ bounds
MaxJobs == 2        \* Job documents ever created
MaxApps == 2        \* Application documents ever created
MaxInterviews == 2  \* Interview documents ever created
MaxViews == 2       \* cap on a Job's viewsCount
MaxSets == 3        \* cap on the number of status writes to one Application
MaxInFlight == 2    \* requests in flight at once
MaxTime == 2        \* clock ticks
MaxTotal == 40      \* Applications of one applicant in a stored history
MaxListed == 6      \* Applications in a stored history of two recruiters' Jobs

\* ------------------------------------------------------------------- users
Anon == "anon"                       \* no req.user (optionalAuth without token)
Applicants == {"a1", "a2"}
Recruiters == {"r1", "r2"}
Admins == {"adm"}
Users == Applicants \cup Recruiters \cup Admins

role(u) ==
  IF u \in Applicants THEN "applicant"
  ELSE IF u \in Recruiters THEN "recruiter"
  ELSE "admin"

Undef == "undefined"                 \* a field absent from req.body
UndefNum == -1                       \* the same, for a numeric field or an id

\* ----------------------------------------------------------------- schemas
AppStatusEnum ==
  {"submitted", "under_review", "shortlisted", "interview_scheduled",
   "interviewed", "second_interview", "final_interview", "offer_extended",
   "offer_accepted", "offer_declined", "hired", "rejected", "withdrawn"}

JobStatusEnum == {"draft", "active", "paused", "closed", "filled"}

InterviewStatusEnum ==
  {"scheduled", "confirmed", "in_progress", "completed", "cancelled",
   "rescheduled", "no_show"}

\* the list updateApplicationStatus accepts before it loads anything
validStatuses ==
  {"pending", "reviewing", "shortlisted", "interview_scheduled",
   "interviewed", "selected", "rejected", "withdrawn"}

\* the fields an applicant may change through updateApplication
allowedFields ==
  {"coverLetter", "expectedSalary", "availableFrom", "noticePeriod", "willingToRelocate"}

JobIds == 1..MaxJobs
AppIds == 1..MaxApps
IvIds == 1..MaxInterviews
ProcIds == 1..MaxInFlight

VARIABLES
  jobs,        \* Job collection: id -> document
  apps,        \* Application collection: id -> document
  ivs,         \* Interview collection: id -> document
  made,        \* ObjectIds handed out so far, per collection; views: the
               \* getJob requests by non-owners answered 200 so far
  now,         \* the clock new Date() reads
  sets,        \* history: status writes persisted per Application id
  procs,       \* requests in flight: their position and local variables
  resp         \* the last response sent

vars == <<jobs, apps, ivs, made, now, sets, procs, resp>>
store == <<jobs, apps, ivs, made, sets>>

NoResp == [op |-> "none", user |-> Anon, id |-> 0, arg |-> Undef, code |-> 0,
           data |-> {}]
Idle == [pc |-> "idle"]

Init ==
  /\ jobs = <<>>
  /\ apps = <<>>
  /\ ivs = <<>>
  /\ made = [job |-> 0, app |-> 0, iv |-> 0, views |-> 0]
  /\ now = 0
  /\ sets = <<>>
  /\ procs = [p \in ProcIds |-> Idle]
  /\ resp = NoResp

\* res.status(code).json(...)
Respond(op, u, id, arg, code) ==
  resp' = [op |-> op, user |-> u, id |-> id, arg |-> arg, code |-> code,
           data |-> {}]

\* res.status(code).json({ data: [...] }): the ids of the documents listed
RespondList(op, u, id, data, code) ==
  resp' = [op |-> op, user |-> u, id |-> id, arg |-> Undef, code |-> code,
           data |-> data]

\* A request takes the first free slot; what a handler holds between awaits
\* (the documents it loaded, the count it read) is kept in its slot.
FreeSlot(p) ==
  /\ procs[p] = Idle
  /\ \A q \in ProcIds : q < p => procs[q] # Idle

At(p, pc) == procs[p].pc = pc

Finish(p) == procs' = [procs EXCEPT ![p] = Idle]

\* ------------------------------------------------------ store operators
Remove(coll, id) == [x \in DOMAIN coll \ {id} |-> coll[x]]
Put(coll, id, doc) == [x \in DOMAIN coll \cup {id} |-> IF x = id THEN doc ELSE coll[x]]

\* Application.countDocuments({ job })
CountDocuments(as, j) == Cardinality({a \in DOMAIN as : as[a].job = j})

\* mutant: the query never matches
FindOneApplication_Missed(as, j, u) == {}

\* Application.findOne({ job, applicant })
FindOneApplication(as, j, u) == {a \in DOMAIN as : as[a].job = j /\ as[a].applicant = u}

\* The unique index { applicant, job }: an insert of a second document with
\* the same pair is refused by the store (duplicate key).
UniqueViolated(as, doc) ==
  \E a \in DOMAIN as : as[a].applicant = doc.applicant /\ as[a].job = doc.job

\* Interview.findOne({ application })
FindOneInterview(is, a) == {i \in DOMAIN is : is[i].application = a}

\* document.isModified(path): the path was assigned a value that differs from
\* the one the document was loaded with
isModified(loaded, doc, path) == doc[path] # loaded[path]

\* --------------------------------------------------------------- middleware
\* protect: the request carries a known user
protect(u) == u # Anon

\* authorize(...roles): the user's role is one of the roles listed
authorize(roles, u) == role(u) \in roles

\* mutant: the route lists protect only, authorize is left out
Gate_ProtectOnly(roles, u) == IF ~protect(u) THEN 401 ELSE 0

\* The status the middleware chain answers with before the handler runs
\* (0: the handler runs).
Gate(roles, u) ==
  IF ~protect(u) THEN 401
  ELSE IF roles # {} /\ ~authorize(roles, u) THEN 403
  ELSE 0

Staff == {"recruiter", "admin"}

\* validateJob: applicationDeadline must lie in the future
validateJob(body) == body.applicationDeadline > now

\* validateInterview: scheduledDate must lie in the future
validateInterview(body) == body.scheduledDate > now

\* ------------------------------------------------------------ Job documents
\* Job.create(body): schema defaults for the fields the body leaves out
NewJob(body) ==
  [postedBy |-> body.postedBy,
   status |-> IF body.status = Undef THEN "active" ELSE body.status,
   applicationsCount |-> IF body.applicationsCount = UndefNum THEN 0 ELSE body.applicationsCount,
   viewsCount |-> 0,
   applicationDeadline |-> body.applicationDeadline]

\* the enum validator of Job.status
JobValid(body) == body.status \in JobStatusEnum \cup {Undef}

\* findByIdAndUpdate(id, body): every field the body defines is overwritten
UpdatedJob(doc, body) ==
  [postedBy |-> IF body.postedBy = Undef THEN doc.postedBy ELSE body.postedBy,
   status |-> IF body.status = Undef THEN doc.status ELSE body.status,
   applicationsCount |-> IF body.applicationsCount = UndefNum THEN doc.applicationsCount
                         ELSE body.applicationsCount,
   viewsCount |-> doc.viewsCount,
   applicationDeadline |-> body.applicationDeadline]

\* mutant: || in place of &&
NotJobOwnerNorAdmin_Or(doc, u) == doc.postedBy # u \/ role(u) # "admin"

\* job.postedBy.toString() !== req.user.id && req.user.role !== 'admin'
NotJobOwnerNorAdmin(doc, u) == doc.postedBy # u /\ role(u) # "admin"

\* mutant: the save is started but the document never reaches the store
SaveApplicationsCount_Unsent(js, j, loaded, count) == js

\* jobSchema.methods.updateApplicationsCount: count, assign, save.  save()
\* writes the paths that were modified, to the stored document of that id.
SaveApplicationsCount(js, j, loaded, count) ==
  IF j \in DOMAIN js /\ count # loaded.applicationsCount
  THEN [js EXCEPT ![j].applicationsCount = count]
  ELSE js

\* mutant: the counter is incremented instead of recomputed
updateApplicationsCount_Incr(js, as, j, loaded) ==
  SaveApplicationsCount(js, j, loaded, loaded.applicationsCount + 1)

updateApplicationsCount(js, as, j, loaded) ==
  SaveApplicationsCount(js, j, loaded, CountDocuments(as, j))

\* mutant: the owner's own reads are counted too, so a read counts twice
incrementViews_Twice(js, j, loaded) ==
  IF j \in DOMAIN js
  THEN [js EXCEPT ![j].viewsCount = loaded.viewsCount + 2]
  ELSE js

\* jobSchema.methods.incrementViews
incrementViews(js, j, loaded) ==
  IF j \in DOMAIN js
  THEN [js EXCEPT ![j].viewsCount = loaded.viewsCount + 1]
  ELSE js

\* ------------------------------------------------- Job handlers (atomic)
createJob(u, body) ==
  /\ made.job < MaxJobs
  /\ LET g == Gate(Staff, u)
         id == made.job + 1
         data == [body EXCEPT !.postedBy = u]
     IN IF g # 0 THEN Respond("createJob", u, 0, Undef, g) /\ UNCHANGED <<jobs, made>>
        ELSE IF ~validateJob(body)
          THEN Respond("createJob", u, 0, Undef, 400) /\ UNCHANGED <<jobs, made>>
        ELSE IF ~JobValid(data)
          THEN Respond("createJob", u, 0, Undef, 500) /\ UNCHANGED <<jobs, made>>
        ELSE /\ jobs' = Put(jobs, id, NewJob(data))
             /\ made' = [made EXCEPT !.job = id]
             /\ Respond("createJob", u, id, Undef, 201)
  /\ UNCHANGED <<apps, ivs, now, sets, procs>>

updateJob(u, j, body) ==
  /\ LET g == Gate(Staff, u)
     IN IF g # 0 THEN Respond("updateJob", u, j, Undef, g) /\ UNCHANGED jobs
        ELSE IF ~validateJob(body)
          THEN Respond("updateJob", u, j, Undef, 400) /\ UNCHANGED jobs
        ELSE IF j \notin DOMAIN jobs
          THEN Respond("updateJob", u, j, Undef, 404) /\ UNCHANGED jobs
        ELSE IF NotJobOwnerNorAdmin(jobs[j], u)
          THEN Respond("updateJob", u, j, Undef, 401) /\ UNCHANGED jobs
        ELSE IF ~JobValid(body)
          THEN Respond("updateJob", u, j, Undef, 500) /\ UNCHANGED jobs
        ELSE /\ jobs' = [jobs EXCEPT ![j] = UpdatedJob(@, body)]
             /\ Respond("updateJob", u, j, Undef, 200)
  /\ UNCHANGED <<apps, ivs, made, now, sets, procs>>

deleteJob(u, j) ==
  /\ LET g == Gate(Staff, u)
     IN IF g # 0 THEN Respond("deleteJob", u, j, Undef, g) /\ UNCHANGED jobs
        ELSE IF j \notin DOMAIN jobs
          THEN Respond("deleteJob", u, j, Undef, 404) /\ UNCHANGED jobs
        ELSE IF NotJobOwnerNorAdmin(jobs[j], u)
          THEN Respond("deleteJob", u, j, Undef, 401) /\ UNCHANGED jobs
        ELSE /\ jobs' = Remove(jobs, j)
             /\ Respond("deleteJob", u, j, Undef, 200)
  /\ UNCHANGED <<apps, ivs, made, now, sets, procs>>

\* mutant: the list is the schema enum
toggleValidStatuses_Enum == JobStatusEnum

\* the list toggleJobStatus accepts before it loads the Job
toggleValidStatuses == {"active", "paused", "closed", "filled"}

toggleJobStatus(u, j, status) ==
  /\ LET g == Gate(Staff, u)
     IN IF g # 0 THEN Respond("toggleJobStatus", u, j, status, g) /\ UNCHANGED jobs
        ELSE IF status \notin toggleValidStatuses
          THEN Respond("toggleJobStatus", u, j, status, 400) /\ UNCHANGED jobs
        ELSE IF j \notin DOMAIN jobs
          THEN Respond("toggleJobStatus", u, j, status, 404) /\ UNCHANGED jobs
        ELSE IF NotJobOwnerNorAdmin(jobs[j], u)
          THEN Respond("toggleJobStatus", u, j, status, 401) /\ UNCHANGED jobs
        ELSE /\ jobs' = [jobs EXCEPT ![j].status = status]
             /\ Respond("toggleJobStatus", u, j, status, 200)
  /\ UNCHANGED <<apps, ivs, made, now, sets, procs>>

duplicateJob(u, j) ==
  /\ made.job < MaxJobs
  /\ LET g == Gate(Staff, u)
         id == made.job + 1
     IN IF g # 0 THEN Respond("duplicateJob", u, j, Undef, g) /\ UNCHANGED <<jobs, made>>
        ELSE IF j \notin DOMAIN jobs
          THEN Respond("duplicateJob", u, j, Undef, 404) /\ UNCHANGED <<jobs, made>>
        ELSE IF NotJobOwnerNorAdmin(jobs[j], u)
          THEN Respond("duplicateJob", u, j, Undef, 401) /\ UNCHANGED <<jobs, made>>
        ELSE /\ jobs' = Put(jobs, id,
                  NewJob([postedBy |-> jobs[j].postedBy, status |-> "draft",
                          applicationsCount |-> UndefNum,
                          applicationDeadline |-> jobs[j].applicationDeadline]))
             /\ made' = [made EXCEPT !.job = id]
             /\ Respond("duplicateJob", u, id, Undef, 201)
  /\ UNCHANGED <<apps, ivs, now, sets, procs>>

\* getJobStats reads the Job's counters and writes nothing
getJobStats(u, j) ==
  /\ LET g == Gate(Staff, u)
     IN IF g # 0 THEN Respond("getJobStats", u, j, Undef, g)
        ELSE IF j \notin DOMAIN jobs
          THEN Respond("getJobStats", u, j, Undef, 404)
        ELSE IF NotJobOwnerNorAdmin(jobs[j], u)
          THEN Respond("getJobStats", u, j, Undef, 401)
        ELSE Respond("getJobStats", u, j, Undef, 200)
  /\ UNCHANGED <<jobs, apps, ivs, made, now, sets, procs>>

\* optionalAuth: u may be Anon
getJob(u, j) ==
  /\ IF j \notin DOMAIN jobs
       THEN Respond("getJob", u, j, Undef, 404) /\ UNCHANGED <<jobs, made>>
     ELSE IF u = Anon \/ u # jobs[j].postedBy
       THEN /\ jobs[j].viewsCount < MaxViews
            /\ jobs' = incrementViews(jobs, j, jobs[j])
            /\ made' = [made EXCEPT !.views = @ + 1]
            /\ Respond("getJob", u, j, Undef, 200)
     ELSE Respond("getJob", u, j, Undef, 200) /\ UNCHANGED <<jobs, made>>
  /\ UNCHANGED <<apps, ivs, now, sets, procs>>

\* getJob, one action per await: Job.findById and the owner test
GJ_Find(p, u, j) ==
  /\ FreeSlot(p)
  /\ IF j \notin DOMAIN jobs
       THEN Respond("getJob", u, j, Undef, 404) /\ UNCHANGED procs
     ELSE IF u = Anon \/ u # jobs[j].postedBy
       THEN /\ procs' = [procs EXCEPT ![p] =
                 [pc |-> "incrementViews", op |-> "getJob", user |-> u, job |-> j,
                  app |-> 0, iv |-> 0, loaded |-> jobs[j], count |-> 0]]
            /\ UNCHANGED resp
     ELSE Respond("getJob", u, j, Undef, 200) /\ UNCHANGED procs
  /\ UNCHANGED <<jobs, apps, ivs, made, now, sets>>

\* getJob: job.incrementViews() adds 1 to the loaded viewsCount and saves it;
\* then the handler answers
GJ_IncrementViews(p) ==
  /\ At(p, "incrementViews")
  /\ made.views < MaxViews
  /\ jobs' = incrementViews(jobs, procs[p].job, procs[p].loaded)
  /\ made' = [made EXCEPT !.views = @ + 1]
  /\ Respond("getJob", procs[p].user, procs[p].job, Undef, 200)
  /\ Finish(p)
  /\ UNCHANGED <<apps, ivs, now, sets>>

\* time passes
Tick ==
  /\ now < MaxTime
  /\ now' = now + 1
  /\ UNCHANGED <<jobs, apps, ivs, made, sets, procs, resp>>

\* ---------------------------------------------------- Application documents
\* Application.create(applicationData): status defaults to 'submitted', the
\* timeline starts empty (the pre-save hook skips new documents)
NewApplication(u, j, coverLetter, resumeFile) ==
  [applicant |-> u, job |-> j, status |-> "submitted", timeline |-> <<>>,
   coverLetter |-> IF coverLetter = Undef THEN "" ELSE coverLetter,
   resume |-> resumeFile]

\* mutant: the collection carries no unique index
InsertApplication_NoIndex(as, id, doc) == Put(as, id, doc)

\* The insert itself: refused when the unique index would be violated
InsertApplication(as, id, doc) ==
  IF UniqueViolated(as, doc) THEN as ELSE Put(as, id, doc)

\* the enum validator of Application.status
AppStatusValid(status) == status \in AppStatusEnum

\* mutant: the hook appends on every save of a stored document
preSave_Always(loaded, doc, isNew) ==
  IF ~isNew THEN [doc EXCEPT !.timeline = Append(@, doc.status)] ELSE doc

\* applicationSchema.pre('save'): push a timeline entry when the status was
\* modified on a document that is not new
preSave(loaded, doc, isNew) ==
  IF isModified(loaded, doc, "status") /\ ~isNew
  THEN [doc EXCEPT !.timeline = Append(@, doc.status)]
  ELSE doc

\* a body that carries an update operator in place of the field:
\* { $unset: { status: '' } }
Unset == "$unset"

\* Application.findByIdAndUpdate(id, update): the fields the update defines
\* are written as they are, a field the update unsets is removed from the
\* stored document; no save hook runs
UpdatedApplication(doc, body) ==
  [applicant |-> doc.applicant,
   job |-> IF body.job = UndefNum THEN doc.job ELSE body.job,
   status |-> IF body.status = Undef THEN doc.status
              ELSE IF body.status = Unset THEN Undef
              ELSE body.status,
   timeline |-> doc.timeline,
   coverLetter |-> IF body.coverLetter = Undef THEN doc.coverLetter ELSE body.coverLetter,
   resume |-> doc.resume]

\* mutant: the filter is left out, req.body goes to the store as sent
OnlyAllowedFields_All(body) == body

\* updateApplication's filter for a caller who is only the applicant
OnlyAllowedFields(body) ==
  [f \in DOMAIN body |->
     IF f \in allowedFields THEN body[f] ELSE IF f = "job" THEN UndefNum ELSE Undef]

\* Job.findOne({ _id: application.job, postedBy: req.user.id })
isJobOwner(js, doc, u) == doc.job \in DOMAIN js /\ js[doc.job].postedBy = u

\* mutant: the Job's owner is let through too, as in updateApplication
NotApplicantNorAdmin_JobOwnerToo(doc, u) ==
  doc.applicant # u /\ ~isJobOwner(jobs, doc, u) /\ role(u) # "admin"

\* deleteApplication: !isOwner && !isAdmin
NotApplicantNorAdmin(doc, u) == doc.applicant # u /\ role(u) # "admin"

\* mutant: the update is built but never sent
SetStatus_Unsent(as, a, status) == as

\* findByIdAndUpdate(id, { status }) as the interview handlers call it
SetStatus(as, a, status) ==
  IF a \in DOMAIN as THEN [as EXCEPT ![a].status = status] ELSE as

\* history: one more status write persisted to Application a
Counted(ss, a) == IF a \in DOMAIN ss THEN [ss EXCEPT ![a] = @ + 1] ELSE ss

\* createApplication's 400 messages
NotAccepting == "Job is not accepting applications"
DeadlinePassed == "Application deadline has passed"
AlreadyApplied == "You have already applied for this job"

\* mutant: the comparison is turned around
deadlinePassed_Reversed(job) == now < job.applicationDeadline

\* createApplication: new Date() > job.applicationDeadline
deadlinePassed(job) == now > job.applicationDeadline

\* ----------------------------------------- Application handlers (atomic)
createApplication(u, j, coverLetter, resumeFile) ==
  /\ LET g == Gate({"applicant"}, u)
         id == made.app + 1
         doc == NewApplication(u, j, coverLetter, resumeFile)
         op == "createApplication"
     IN IF g # 0 THEN Respond(op, u, j, Undef, g) /\ UNCHANGED store
        ELSE IF j \notin DOMAIN jobs
          THEN Respond(op, u, j, Undef, 404) /\ UNCHANGED store
        ELSE IF jobs[j].status # "active"
          THEN Respond(op, u, j, NotAccepting, 400) /\ UNCHANGED store
        ELSE IF deadlinePassed(jobs[j])
          THEN Respond(op, u, j, DeadlinePassed, 400) /\ UNCHANGED store
        ELSE IF FindOneApplication(apps, j, u) # {}
          THEN Respond(op, u, j, AlreadyApplied, 400) /\ UNCHANGED store
        ELSE IF id \notin DOMAIN InsertApplication(apps, id, doc)
          THEN \* duplicate key: the error goes to next(error)
               Respond(op, u, j, "duplicate", 500) /\ UNCHANGED store
        ELSE /\ made.app < MaxApps
             /\ apps' = InsertApplication(apps, id, doc)
             /\ made' = [made EXCEPT !.app = id]
             /\ sets' = Put(sets, id, 0)
             /\ jobs' = updateApplicationsCount(jobs, apps', j, jobs[j])
             /\ Respond(op, u, id, Undef, 201)
             /\ UNCHANGED ivs
  /\ UNCHANGED <<now, procs>>

deleteApplication(u, a) ==
  /\ LET g == Gate({}, u)
         op == "deleteApplication"
     IN IF g # 0 THEN Respond(op, u, a, Undef, g) /\ UNCHANGED store
        ELSE IF a \notin DOMAIN apps
          THEN Respond(op, u, a, Undef, 404) /\ UNCHANGED store
        ELSE IF NotApplicantNorAdmin(apps[a], u)
          THEN Respond(op, u, a, Undef, 403) /\ UNCHANGED store
        ELSE /\ apps' = Remove(apps, a)
             /\ sets' = Remove(sets, a)
             /\ jobs' = IF apps[a].job \in DOMAIN jobs
                        THEN updateApplicationsCount(jobs, apps', apps[a].job, jobs[apps[a].job])
                        ELSE jobs
             /\ Respond(op, u, a, Undef, 200)
             /\ UNCHANGED <<ivs, made>>
  /\ UNCHANGED <<now, procs>>

updateApplication(u, a, body) ==
  /\ LET g == Gate({}, u)
         op == "updateApplication"
     IN IF g # 0 THEN Respond(op, u, a, Undef, g) /\ UNCHANGED <<apps, sets>>
        ELSE IF a \notin DOMAIN apps
          THEN Respond(op, u, a, Undef, 404) /\ UNCHANGED <<apps, sets>>
        ELSE LET isOwner == apps[a].applicant = u
                 jobOwner == isJobOwner(jobs, apps[a], u)
                 isAdmin == role(u) = "admin"
                 update == IF isOwner /\ ~jobOwner /\ ~isAdmin
                           THEN OnlyAllowedFields(body) ELSE body
             IN IF ~isOwner /\ ~jobOwner /\ ~isAdmin
                  THEN Respond(op, u, a, Undef, 403) /\ UNCHANGED <<apps, sets>>
                ELSE IF update.status \notin {Undef, Unset} /\ ~AppStatusValid(update.status)
                  THEN \* runValidators: the enum validator runs on a value that
                       \* is set; on $unset only 'required' would, and status
                       \* is not required
                       Respond(op, u, a, update.status, 500) /\ UNCHANGED <<apps, sets>>
                ELSE IF UniqueViolated(Remove(apps, a), UpdatedApplication(apps[a], update))
                  THEN \* duplicate key on { applicant, job }
                       Respond(op, u, a, "duplicate", 500) /\ UNCHANGED <<apps, sets>>
                ELSE /\ update.status # Undef => sets[a] < MaxSets
                     /\ apps' = [apps EXCEPT ![a] = UpdatedApplication(@, update)]
                     /\ sets' = IF update.status # Undef THEN Counted(sets, a) ELSE sets
                     /\ Respond(op, u, a, update.status, 200)
  /\ UNCHANGED <<jobs, ivs, made, now, procs>>

updateApplicationStatus(u, a, status) ==
  /\ LET g == Gate(Staff, u)
         op == "updateApplicationStatus"
     IN IF g # 0 THEN Respond(op, u, a, status, g) /\ UNCHANGED <<apps, sets>>
        ELSE IF status \notin validStatuses
          THEN Respond(op, u, a, status, 400) /\ UNCHANGED <<apps, sets>>
        ELSE IF a \notin DOMAIN apps
          THEN Respond(op, u, a, status, 404) /\ UNCHANGED <<apps, sets>>
        ELSE IF apps[a].job \notin DOMAIN jobs
          THEN Respond(op, u, a, status, 500) /\ UNCHANGED <<apps, sets>>
        ELSE IF NotJobOwnerNorAdmin(jobs[apps[a].job], u)
          THEN Respond(op, u, a, status, 403) /\ UNCHANGED <<apps, sets>>
        ELSE LET doc == [apps[a] EXCEPT !.status = status]
             IN IF isModified(apps[a], doc, "status") /\ ~AppStatusValid(status)
                  THEN Respond(op, u, a, status, 500) /\ UNCHANGED <<apps, sets>>
                ELSE /\ sets[a] < MaxSets
                     /\ apps' = [apps EXCEPT ![a] = preSave(apps[a], doc, FALSE)]
                     /\ sets' = Counted(sets, a)
                     /\ Respond(op, u, a, status, 200)
  /\ UNCHANGED <<jobs, ivs, made, now, procs>>

\* getApplication: populate('job') leaves application.job null when the Job
\* is gone, and application.job._id then throws (next(error): 500)
getApplication(u, a) ==
  /\ LET g == Gate({}, u)
         op == "getApplication"
     IN IF g # 0 THEN Respond(op, u, a, Undef, g)
        ELSE IF a \notin DOMAIN apps
          THEN Respond(op, u, a, Undef, 404)
        ELSE IF apps[a].job \notin DOMAIN jobs
          THEN Respond(op, u, a, Undef, 500)
        ELSE IF /\ apps[a].applicant # u
                /\ ~isJobOwner(jobs, apps[a], u)
                /\ role(u) # "admin"
          THEN Respond(op, u, a, Undef, 403)
        ELSE Respond(op, u, a, Undef, 200)
  /\ UNCHANGED <<jobs, apps, ivs, made, now, sets, procs>>

\* downloadResume: the same checks, then the resume record and the file on
\* the server (fileExists: what fs.existsSync finds)
downloadResume(u, a, fileExists) ==
  /\ LET g == Gate({}, u)
         op == "downloadResume"
     IN IF g # 0 THEN Respond(op, u, a, Undef, g)
        ELSE IF a \notin DOMAIN apps
          THEN Respond(op, u, a, Undef, 404)
        ELSE IF apps[a].job \notin DOMAIN jobs
          THEN Respond(op, u, a, Undef, 500)
        ELSE IF /\ apps[a].applicant # u
                /\ ~isJobOwner(jobs, apps[a], u)
                /\ role(u) # "admin"
          THEN Respond(op, u, a, Undef, 403)
        ELSE IF ~apps[a].resume
          THEN Respond(op, u, a, "Resume not found for this application", 404)
        ELSE IF ~fileExists
          THEN Respond(op, u, a, "Resume file not found on server", 404)
        ELSE Respond(op, u, a, Undef, 200)
  /\ UNCHANGED <<jobs, apps, ivs, made, now, sets, procs>>

\* getApplications: for a recruiter the Applications of the Jobs they posted,
\* for an admin all of them (the first page holds them all)
getApplications(u) ==
  /\ LET g == Gate(Staff, u)
         op == "getApplications"
         jobIds == {j \in DOMAIN jobs : jobs[j].postedBy = u}
     IN IF g # 0 THEN Respond(op, u, 0, Undef, g)
        ELSE IF role(u) = "recruiter"
          THEN RespondList(op, u, 0, {a \in DOMAIN apps : apps[a].job \in jobIds}, 200)
        ELSE RespondList(op, u, 0, DOMAIN apps, 200)
  /\ UNCHANGED <<jobs, apps, ivs, made, now, sets, procs>>

\* getApplicationsByJob: Application.find({ job: req.params.jobId })
getApplicationsByJob(u, j) ==
  /\ LET g == Gate(Staff, u)
         op == "getApplicationsByJob"
     IN IF g # 0 THEN Respond(op, u, j, Undef, g)
        ELSE RespondList(op, u, j, {a \in DOMAIN apps : apps[a].job = j}, 200)
  /\ UNCHANGED <<jobs, apps, ivs, made, now, sets, procs>>

\* ------------------------------- Application handlers, one action per await
\* createApplication: Job.findById and the checks on the Job
CA_FindJob(p, u, j) ==
  /\ FreeSlot(p)
  /\ LET g == Gate({"applicant"}, u)
         op == "createApplication"
     IN IF g # 0 THEN Respond(op, u, j, Undef, g) /\ UNCHANGED procs
        ELSE IF j \notin DOMAIN jobs
          THEN Respond(op, u, j, Undef, 404) /\ UNCHANGED procs
        ELSE IF jobs[j].status # "active"
          THEN Respond(op, u, j, NotAccepting, 400) /\ UNCHANGED procs
        ELSE IF deadlinePassed(jobs[j])
          THEN Respond(op, u, j, DeadlinePassed, 400) /\ UNCHANGED procs
        ELSE /\ procs' = [procs EXCEPT ![p] =
                  [pc |-> "findExisting", op |-> op, user |-> u, job |-> j,
                   app |-> 0, iv |-> 0, loaded |-> jobs[j], count |-> 0]]
             /\ UNCHANGED resp
  /\ UNCHANGED <<jobs, apps, ivs, made, now, sets>>

\* createApplication: Application.findOne({ job, applicant })
CA_FindExisting(p) ==
  /\ At(p, "findExisting")
  /\ IF FindOneApplication(apps, procs[p].job, procs[p].user) # {}
       THEN /\ Respond(procs[p].op, procs[p].user, procs[p].job, AlreadyApplied, 400)
            /\ Finish(p)
       ELSE /\ procs' = [procs EXCEPT ![p].pc = "create"]
            /\ UNCHANGED resp
  /\ UNCHANGED <<jobs, apps, ivs, made, now, sets>>

\* createApplication: Application.create(applicationData)
CA_Create(p) ==
  /\ At(p, "create")
  /\ made.app < MaxApps
  /\ LET id == made.app + 1
         doc == NewApplication(procs[p].user, procs[p].job, Undef, FALSE)
         inserted == InsertApplication(apps, id, doc)
     IN IF id \notin DOMAIN inserted
          THEN \* duplicate key: the error goes to next(error)
               /\ Respond(procs[p].op, procs[p].user, procs[p].job, "duplicate", 500)
               /\ Finish(p)
               /\ UNCHANGED <<apps, made, sets>>
          ELSE /\ apps' = inserted
               /\ made' = [made EXCEPT !.app = id]
               /\ sets' = Put(sets, id, 0)
               /\ procs' = [procs EXCEPT ![p].pc = "count", ![p].app = id]
               /\ UNCHANGED resp
  /\ UNCHANGED <<jobs, ivs, now>>

\* deleteApplication: Application.findById and the authorization check
DA_Find(p, u, a) ==
  /\ FreeSlot(p)
  /\ LET g == Gate({}, u)
         op == "deleteApplication"
     IN IF g # 0 THEN Respond(op, u, a, Undef, g) /\ UNCHANGED procs
        ELSE IF a \notin DOMAIN apps
          THEN Respond(op, u, a, Undef, 404) /\ UNCHANGED procs
        ELSE IF NotApplicantNorAdmin(apps[a], u)
          THEN Respond(op, u, a, Undef, 403) /\ UNCHANGED procs
        ELSE /\ procs' = [procs EXCEPT ![p] =
                  [pc |-> "delete", op |-> op, user |-> u, job |-> apps[a].job,
                   app |-> a, iv |-> 0, loaded |-> Idle, count |-> 0]]
             /\ UNCHANGED resp
  /\ UNCHANGED <<jobs, apps, ivs, made, now, sets>>

\* deleteApplication: application.deleteOne()
DA_Delete(p) ==
  /\ At(p, "delete")
  /\ apps' = Remove(apps, procs[p].app)
  /\ sets' = Remove(sets, procs[p].app)
  /\ procs' = [procs EXCEPT ![p].pc = "findJob"]
  /\ UNCHANGED <<jobs, ivs, made, now, resp>>

\* deleteApplication: Job.findById(application.job)
DA_FindJob(p) ==
  /\ At(p, "findJob")
  /\ IF procs[p].job \notin DOMAIN jobs
       THEN /\ Respond(procs[p].op, procs[p].user, procs[p].app, Undef, 200)
            /\ Finish(p)
       ELSE /\ procs' = [procs EXCEPT ![p].pc = "count", ![p].loaded = jobs[procs[p].job]]
            /\ UNCHANGED resp
  /\ UNCHANGED <<jobs, apps, ivs, made, now, sets>>

\* updateApplicationsCount: await Application.countDocuments({ job: this._id })
UAC_Count(p) ==
  /\ At(p, "count")
  /\ procs' = [procs EXCEPT ![p].pc = "save",
                            ![p].count = CountDocuments(apps, procs[p].job)]
  /\ UNCHANGED <<jobs, apps, ivs, made, now, sets, resp>>

\* updateApplicationsCount: this.applicationsCount = count; this.save(); then
\* the handler answers
UAC_Save(p) ==
  /\ At(p, "save")
  /\ jobs' = SaveApplicationsCount(jobs, procs[p].job, procs[p].loaded, procs[p].count)
  /\ Respond(procs[p].op, procs[p].user, procs[p].app, Undef,
             IF procs[p].op = "createApplication" THEN 201 ELSE 200)
  /\ Finish(p)
  /\ UNCHANGED <<apps, ivs, made, now, sets>>

\* ------------------------------------------------------ Interview documents
\* Interview.create({ application, ..., scheduledDate, status: 'scheduled' })
NewInterview(a, scheduledDate) ==
  [application |-> a, status |-> "scheduled", scheduledDate |-> scheduledDate,
   feedback |-> Undef, rescheduledFrom |-> UndefNum, rescheduledReason |-> Undef]

\* interviewSchema.methods.reschedule (no handler calls it)
reschedule(doc, newDate, reason) ==
  [doc EXCEPT !.rescheduledFrom = doc.scheduledDate,
              !.scheduledDate = newDate,
              !.rescheduledReason = reason,
              !.status = "rescheduled"]

\* the enum validator of Interview.status
IvStatusValid(status) == status \in InterviewStatusEnum

\* mutant: completed does not cascade
Cascade_NoCompleted(status) ==
  IF status = "cancelled" THEN "shortlisted" ELSE Undef

\* mutant: the two cascades are swapped
Cascade_Swapped(status) ==
  IF status = "completed" THEN "shortlisted"
  ELSE IF status = "cancelled" THEN "interviewed"
  ELSE Undef

\* updateInterviewStatus: the Application status an Interview status cascades
\* to (Undef: no cascade)
Cascade(status) ==
  IF status = "completed" THEN "interviewed"
  ELSE IF status = "cancelled" THEN "shortlisted"
  ELSE Undef

\* --------------------------------------------- Interview handlers (atomic)
createInterview(u, a, scheduledDate) ==
  /\ LET g == Gate(Staff, u)
         op == "createInterview"
         id == made.iv + 1
     IN IF g # 0 THEN Respond(op, u, a, Undef, g) /\ UNCHANGED <<apps, ivs, made, sets>>
        ELSE IF ~validateInterview([scheduledDate |-> scheduledDate])
          THEN Respond(op, u, a, Undef, 400) /\ UNCHANGED <<apps, ivs, made, sets>>
        ELSE IF a \notin DOMAIN apps
          THEN Respond(op, u, a, Undef, 404) /\ UNCHANGED <<apps, ivs, made, sets>>
        ELSE IF FindOneInterview(ivs, a) # {}
          THEN Respond(op, u, a, "exists", 400) /\ UNCHANGED <<apps, ivs, made, sets>>
        ELSE IF apps[a].job \notin DOMAIN jobs
          THEN Respond(op, u, a, Undef, 500) /\ UNCHANGED <<apps, ivs, made, sets>>
        ELSE /\ made.iv < MaxInterviews
             /\ sets[a] < MaxSets
             /\ ivs' = Put(ivs, id, NewInterview(a, scheduledDate))
             /\ made' = [made EXCEPT !.iv = id]
             /\ apps' = SetStatus(apps, a, "interview_scheduled")
             /\ sets' = Counted(sets, a)
             /\ Respond(op, u, id, Undef, 201)
  /\ UNCHANGED <<jobs, now, procs>>

updateInterview(u, i, scheduledDate, notes) ==
  /\ LET g == Gate(Staff, u)
         op == "updateInterview"
     IN IF g # 0 THEN Respond(op, u, i, Undef, g) /\ UNCHANGED ivs
        ELSE IF ~validateInterview([scheduledDate |-> scheduledDate])
          THEN Respond(op, u, i, Undef, 400) /\ UNCHANGED ivs
        ELSE IF i \notin DOMAIN ivs
          THEN Respond(op, u, i, Undef, 404) /\ UNCHANGED ivs
        ELSE /\ ivs' = [ivs EXCEPT ![i].scheduledDate = scheduledDate]
             \* notes is a String path: notes.push(...) throws after the update
             /\ Respond(op, u, i, Undef, IF notes THEN 500 ELSE 200)
  /\ UNCHANGED <<jobs, apps, made, now, sets, procs>>

deleteInterview(u, i) ==
  /\ LET g == Gate(Staff, u)
         op == "deleteInterview"
     IN IF g # 0 THEN Respond(op, u, i, Undef, g) /\ UNCHANGED <<apps, ivs, sets>>
        ELSE IF i \notin DOMAIN ivs
          THEN Respond(op, u, i, Undef, 404) /\ UNCHANGED <<apps, ivs, sets>>
        ELSE /\ ivs[i].application \in DOMAIN sets => sets[ivs[i].application] < MaxSets
             /\ apps' = SetStatus(apps, ivs[i].application, "shortlisted")
             /\ sets' = Counted(sets, ivs[i].application)
             /\ ivs' = Remove(ivs, i)
             /\ Respond(op, u, i, Undef, 200)
  /\ UNCHANGED <<jobs, made, now, procs>>

updateInterviewStatus(u, i, status) ==
  /\ LET g == Gate({}, u)
         op == "updateInterviewStatus"
     IN IF g # 0 THEN Respond(op, u, i, status, g) /\ UNCHANGED <<apps, ivs, sets>>
        ELSE IF i \notin DOMAIN ivs
          THEN Respond(op, u, i, status, 404) /\ UNCHANGED <<apps, ivs, sets>>
        ELSE IF ~IvStatusValid(status)
          THEN Respond(op, u, i, status, 500) /\ UNCHANGED <<apps, ivs, sets>>
        ELSE LET a == ivs[i].application
                 c == Cascade(status)
             IN /\ (c # Undef /\ a \in DOMAIN sets) => sets[a] < MaxSets
                /\ ivs' = [ivs EXCEPT ![i].status = status]
                /\ apps' = IF c # Undef THEN SetStatus(apps, a, c) ELSE apps
                /\ sets' = IF c # Undef THEN Counted(sets, a) ELSE sets
                /\ Respond(op, u, i, status, 200)
  /\ UNCHANGED <<jobs, made, now, procs>>

addFeedback(u, i, feedback) ==
  /\ LET g == Gate(Staff, u)
         op == "addFeedback"
     IN IF g # 0 THEN Respond(op, u, i, Undef, g) /\ UNCHANGED ivs
        ELSE IF i \notin DOMAIN ivs
          THEN Respond(op, u, i, Undef, 404) /\ UNCHANGED ivs
        ELSE /\ ivs' = [ivs EXCEPT ![i].feedback = feedback]
             /\ Respond(op, u, i, Undef, 200)
  /\ UNCHANGED <<jobs, apps, made, now, sets, procs>>

rescheduleInterview(u, i, scheduledDate) ==
  /\ LET g == Gate({}, u)
         op == "rescheduleInterview"
     IN IF g # 0 THEN Respond(op, u, i, Undef, g) /\ UNCHANGED ivs
        ELSE IF i \notin DOMAIN ivs
          THEN Respond(op, u, i, Undef, 404) /\ UNCHANGED ivs
        ELSE /\ ivs' = [ivs EXCEPT ![i].scheduledDate = scheduledDate,
                                   ![i].status = "scheduled"]
             /\ Respond(op, u, i, Undef, 200)
  /\ UNCHANGED <<jobs, apps, made, now, sets, procs>>

\* --------------------------------- Interview handlers, one action per await
\* createInterview: Application.findById(applicationId).populate('job'); the
\* slot keeps the populated job (0: the Job is gone, populate left null)
CI_FindApp(p, u, a, scheduledDate) ==
  /\ FreeSlot(p)
  /\ LET g == Gate(Staff, u)
         op == "createInterview"
     IN IF g # 0 THEN Respond(op, u, a, Undef, g) /\ UNCHANGED procs
        ELSE IF ~validateInterview([scheduledDate |-> scheduledDate])
          THEN Respond(op, u, a, Undef, 400) /\ UNCHANGED procs
        ELSE IF a \notin DOMAIN apps
          THEN Respond(op, u, a, Undef, 404) /\ UNCHANGED procs
        ELSE /\ procs' = [procs EXCEPT ![p] =
                  [pc |-> "findExistingInterview", op |-> op, user |-> u,
                   job |-> IF apps[a].job \in DOMAIN jobs THEN apps[a].job ELSE 0,
                   app |-> a, iv |-> 0, loaded |-> Idle, count |-> scheduledDate]]
             /\ UNCHANGED resp
  /\ UNCHANGED <<jobs, apps, ivs, made, now, sets>>

\* createInterview: Interview.findOne({ application: applicationId })
CI_FindExisting(p) ==
  /\ At(p, "findExistingInterview")
  /\ IF FindOneInterview(ivs, procs[p].app) # {}
       THEN /\ Respond(procs[p].op, procs[p].user, procs[p].app, "exists", 400)
            /\ Finish(p)
       ELSE IF procs[p].job = 0
         THEN \* application.job._id of a null job throws
              /\ Respond(procs[p].op, procs[p].user, procs[p].app, Undef, 500)
              /\ Finish(p)
         ELSE /\ procs' = [procs EXCEPT ![p].pc = "createInterview"]
              /\ UNCHANGED resp
  /\ UNCHANGED <<jobs, apps, ivs, made, now, sets>>

\* createInterview: Interview.create({...}); no index of the collection is
\* unique, so the insert is never refused
CI_Create(p) ==
  /\ At(p, "createInterview")
  /\ made.iv < MaxInterviews
  /\ LET id == made.iv + 1
     IN /\ ivs' = Put(ivs, id, NewInterview(procs[p].app, procs[p].count))
        /\ made' = [made EXCEPT !.iv = id]
        /\ procs' = [procs EXCEPT ![p].pc = "setStatus", ![p].iv = id]
  /\ UNCHANGED <<jobs, apps, now, sets, resp>>

\* createInterview: Application.findByIdAndUpdate(applicationId, { status }),
\* then the handler answers
CI_SetStatus(p) ==
  /\ At(p, "setStatus")
  /\ procs[p].app \in DOMAIN sets => sets[procs[p].app] < MaxSets
  /\ apps' = SetStatus(apps, procs[p].app, "interview_scheduled")
  /\ sets' = Counted(sets, procs[p].app)
  /\ Respond(procs[p].op, procs[p].user, procs[p].iv, Undef, 201)
  /\ Finish(p)
  /\ UNCHANGED <<jobs, ivs, made, now>>

\* updateInterviewStatus: Interview.findById, then interview.status = status
\* on the loaded document (count: the paths that assignment modified)
UIS_Find(p, u, i, status) ==
  /\ FreeSlot(p)
  /\ LET g == Gate({}, u)
         op == "updateInterviewStatus"
     IN IF g # 0 THEN Respond(op, u, i, status, g) /\ UNCHANGED procs
        ELSE IF i \notin DOMAIN ivs
          THEN Respond(op, u, i, status, 404) /\ UNCHANGED procs
        ELSE /\ procs' = [procs EXCEPT ![p] =
                  [pc |-> "saveInterview", op |-> op, user |-> u, job |-> 0,
                   app |-> ivs[i].application, iv |-> i,
                   loaded |-> [ivs[i] EXCEPT !.status = status],
                   count |-> IF isModified(ivs[i], [ivs[i] EXCEPT !.status = status], "status")
                             THEN 1 ELSE 0]]
             /\ UNCHANGED resp
  /\ UNCHANGED <<jobs, apps, ivs, made, now, sets>>

\* updateInterviewStatus: interview.save() validates and writes the modified
\* path to the stored document
UIS_Save(p) ==
  /\ At(p, "saveInterview")
  /\ IF procs[p].count > 0 /\ ~IvStatusValid(procs[p].loaded.status)
       THEN /\ Respond(procs[p].op, procs[p].user, procs[p].iv, procs[p].loaded.status, 500)
            /\ Finish(p)
            /\ UNCHANGED ivs
       ELSE /\ ivs' = IF procs[p].count > 0 /\ procs[p].iv \in DOMAIN ivs
                      THEN [ivs EXCEPT ![procs[p].iv].status = procs[p].loaded.status]
                      ELSE ivs
            /\ procs' = [procs EXCEPT ![p].pc = "cascade"]
            /\ UNCHANGED resp
  /\ UNCHANGED <<jobs, apps, made, now, sets>>

\* updateInterviewStatus: Application.findByIdAndUpdate for completed and
\* cancelled, then the handler answers
UIS_Cascade(p) ==
  /\ At(p, "cascade")
  /\ LET a == procs[p].app
         c == Cascade(procs[p].loaded.status)
     IN /\ (c # Undef /\ a \in DOMAIN sets) => sets[a] < MaxSets
        /\ apps' = IF c # Undef THEN SetStatus(apps, a, c) ELSE apps
        /\ sets' = IF c # Undef THEN Counted(sets, a) ELSE sets
  /\ Respond(procs[p].op, procs[p].user, procs[p].iv, procs[p].loaded.status, 200)
  /\ Finish(p)
  /\ UNCHANGED <<jobs, ivs, made, now>>

\* ------------------------------------------------------------ Number values
\* A JavaScript Number is an IEEE 754 binary64.  A non-negative Number is kept
\* as [m, e]: the natural m, a sequence of bits with the least significant
\* bit first and no leading zero, times 2^e.
MantissaBits == 53

RECURSIVE AddBits(_, _, _)
\* x + y + c for naturals x, y and a carry c
AddBits(x, y, c) ==
  IF x = <<>> /\ y = <<>> THEN (IF c = 1 THEN <<1>> ELSE <<>>)
  ELSE LET a == IF x = <<>> THEN 0 ELSE Head(x)
           b == IF y = <<>> THEN 0 ELSE Head(y)
           s == a + b + c
       IN <<s % 2>> \o AddBits(IF x = <<>> THEN x ELSE Tail(x),
                               IF y = <<>> THEN y ELSE Tail(y), s \div 2)

RECURSIVE MulBits(_, _)
\* x * y for naturals x, y
MulBits(x, y) ==
  IF y = <<>> THEN <<>>
  ELSE AddBits(IF Head(y) = 1 THEN x ELSE <<>>, <<0>> \o MulBits(x, Tail(y)), 0)

RECURSIVE BitsValue(_)
BitsValue(x) == IF x = <<>> THEN 0 ELSE Head(x) + 2 * BitsValue(Tail(x))

RECURSIVE ToBits(_)
ToBits(n) == IF n = 0 THEN <<>> ELSE <<n % 2>> \o ToBits(n \div 2)

\* an integer as a Number (exact below 2^53)
ToNumber(n) == [m |-> ToBits(n), e |-> 0]

\* The result of an operation is the exact value rounded to 53 significant
\* bits, to nearest, ties to even.
RoundToNumber(x) ==
  LET L == Len(x.m)
      d == L - MantissaBits
  IN IF d <= 0 THEN x
     ELSE LET kept == SubSeq(x.m, d + 1, L)
              half == x.m[d] = 1
              sticky == \E i \in 1..(d - 1) : x.m[i] = 1
              up == half /\ (sticky \/ kept[1] = 1)
              r == IF up THEN AddBits(kept, <<>>, 1) ELSE kept
          IN IF Len(r) > MantissaBits
               THEN [m |-> Tail(r), e |-> x.e + d + 1]
               ELSE [m |-> r, e |-> x.e + d]

RECURSIVE LeadingZeros(_, _)
\* the zero bits of r / t (0 < r < t) between the binary point and its first 1
LeadingZeros(r, t) == IF 2 * r >= t THEN 0 ELSE 1 + LeadingZeros(2 * r, t)

RECURSIVE DivBits(_, _, _, _)
\* long division: the next n bits of r / t (r < t) put in front of acc, and
\* the remainder left
DivBits(r, t, n, acc) ==
  IF n = 0 THEN [bits |-> acc, rem |-> r]
  ELSE IF 2 * r >= t THEN DivBits(2 * r - t, t, n - 1, <<1>> \o acc)
  ELSE DivBits(2 * r, t, n - 1, <<0>> \o acc)

\* a / t for integers 0 <= a <= t, t > 0: 54 significant bits of the quotient
\* and one more that tells whether anything is left, rounded
Divide(a, t) ==
  IF a = 0 THEN ToNumber(0)
  ELSE IF a = t THEN ToNumber(1)
  ELSE LET z == LeadingZeros(a, t)
           q == DivBits(a * 2^z, t, MantissaBits + 1, <<>>)
       IN RoundToNumber([m |-> <<IF q.rem # 0 THEN 1 ELSE 0>> \o q.bits,
                         e |-> 0 - (z + MantissaBits + 2)])

\* x * y
Times(x, y) ==
  IF x.m = <<>> \/ y.m = <<>> THEN ToNumber(0)
  ELSE RoundToNumber([m |-> MulBits(x.m, y.m), e |-> x.e + y.e])

\* Math.round(x), x >= 0: the integer part, plus 1 when the first bit after
\* the binary point is set (ties go up)
MathRound(x) ==
  IF x.e >= 0 THEN BitsValue([i \in 1..x.e |-> 0] \o x.m)
  ELSE LET s == 0 - x.e
           L == Len(x.m)
       IN (IF s < L THEN BitsValue(SubSeq(x.m, s + 1, L)) ELSE 0)
          + (IF s <= L /\ s >= 1 THEN x.m[s] ELSE 0)

\* ------------------------------------------------------ dashboard handlers
\* res.status(code).json({ data: stats })
RespondStats(op, u, stats, code) ==
  resp' = [op |-> op, user |-> u, id |-> 0, arg |-> Undef, code |-> code,
           data |-> stats]

\* Application.countDocuments({ applicant, status }); Undef: no status filter
CountApplications(as, u, status) ==
  Cardinality({a \in DOMAIN as :
                 as[a].applicant = u /\ (status = Undef \/ as[a].status = status)})

\* totalApplications > 0
\*   ? Math.round(((totalApplications - rejectedApplications) / totalApplications) * 100)
\*   : 0
successRate(totalApplications, rejectedApplications) ==
  IF totalApplications > 0
  THEN MathRound(Times(Divide(totalApplications - rejectedApplications, totalApplications),
                       ToNumber(100)))
  ELSE 0

getApplicantStats(u) ==
  LET totalApplications == CountApplications(apps, u, Undef)
      rejectedApplications == CountApplications(apps, u, "rejected")
  IN [totalApplications |-> totalApplications,
      pendingApplications |-> CountApplications(apps, u, "pending"),
      rejectedApplications |-> rejectedApplications,
      successRate |-> successRate(totalApplications, rejectedApplications)]

getApplicantDashboard(u) ==
  /\ LET g == Gate({"applicant"}, u)
         op == "getApplicantDashboard"
     IN IF g # 0 THEN RespondStats(op, u, {}, g)
        ELSE RespondStats(op, u, getApplicantStats(u), 200)
  /\ UNCHANGED <<jobs, apps, ivs, made, now, sets, procs>>

\* .limit(5) of the dashboard's recent lists
RecentLimit == 5

RECURSIVE MostRecent(_, _)
\* .sort({ createdAt: -1 }).limit(n): the n documents created last (ids are
\* handed out in creation order)
MostRecent(ids, n) ==
  IF n = 0 \/ ids = {} THEN {}
  ELSE LET last == CHOOSE x \in ids : \A y \in ids : y <= x
       IN {last} \cup MostRecent(ids \ {last}, n - 1)

\* getRecruiterStats: the recent Applications are the five created last of
\* all Applications, their job populated only when the recruiter posted it;
\* those whose job came back null are filtered out, and totalApplications is
\* the length of what is left.  (The populate() chained to the two
\* Application.countDocuments() calls does not filter a count, and the counts
\* are not what totalApplications returns.)
getRecruiterStats(u) ==
  LET recentApplications == MostRecent(DOMAIN apps, RecentLimit)
      filteredRecentApplications ==
        {a \in recentApplications :
           apps[a].job \in DOMAIN jobs /\ jobs[apps[a].job].postedBy = u}
  IN [totalJobs |-> Cardinality({j \in DOMAIN jobs : jobs[j].postedBy = u}),
      activeJobs |-> Cardinality({j \in DOMAIN jobs :
                                    jobs[j].postedBy = u /\ jobs[j].status = "active"}),
      totalApplications |-> Cardinality(filteredRecentApplications),
      recentApplications |-> filteredRecentApplications]

getRecruiterDashboard(u) ==
  /\ LET g == Gate({"recruiter"}, u)
         op == "getRecruiterDashboard"
     IN IF g # 0 THEN RespondStats(op, u, {}, g)
        ELSE RespondStats(op, u, getRecruiterStats(u), 200)
  /\ UNCHANGED <<jobs, apps, ivs, made, now, sets, procs>>

\* ------------------------------------------------------------ request inputs
\* request bodies, with the fields the handlers pass through to the store
JobBody(pb, st, n) ==
  [postedBy |-> pb, status |-> st, applicationsCount |-> n,
   applicationDeadline |-> 1]

AppBody(j, st, cl) == [job |-> j, status |-> st, coverLetter |-> cl]

\* a createJob / updateJob body that sets nothing but the required deadline
PlainJobBody == JobBody(Undef, Undef, UndefNum)

\* statuses sent to updateApplicationStatus: in both lists, in validStatuses
\* only, in the schema enum only
StatusInputs == {"shortlisted", "rejected", "pending", "hired"}

\* statuses sent to updateInterviewStatus
IvStatusInputs == {"completed", "cancelled", "confirmed", "bogus"}

\* the number of stored Applications that reference Job j
LiveCount(j) == Cardinality({a \in DOMAIN apps : apps[a].job = j})

\* ------------------------------------------------------------ specifications
\* Application create and delete requests, each run to completion, against
\* Jobs created with default counters.
NextApps ==
  \/ \E u \in Recruiters : createJob(u, PlainJobBody)
  \/ \E u \in Users, j \in JobIds : createApplication(u, j, Undef, FALSE)
  \/ \E u \in Users, a \in AppIds : deleteApplication(u, a)

SpecApps == Init /\ [][NextApps]_vars

\* Job requests whose bodies may carry applicationsCount, and the Application
\* requests that create, move and delete Applications.
NextJobsApps ==
  \/ \E n \in {UndefNum, 1} : createJob("r1", JobBody(Undef, Undef, n))
  \/ \E u \in {"r1", "r2"}, j \in JobIds, n \in {UndefNum, 1} :
       updateJob(u, j, JobBody(Undef, Undef, n))
  \/ \E u \in {"r1", "r2"}, j \in JobIds : deleteJob(u, j)
  \/ \E u \in {"r1", "r2"}, j \in JobIds : duplicateJob(u, j)
  \/ \E j \in JobIds : createApplication("a1", j, Undef, FALSE)
  \/ \E u \in {"a1", "r1"}, a \in AppIds : deleteApplication(u, a)
  \/ \E u \in {"a1", "r1"}, a \in AppIds, j \in {UndefNum} \cup JobIds :
       updateApplication(u, a, AppBody(j, Undef, "cl"))

SpecJobsApps == Init /\ [][NextJobsApps]_vars

\* Reads of single Jobs by owners, other users and anonymous callers.
NextViews ==
  \/ \E u \in Recruiters : createJob(u, PlainJobBody)
  \/ \E j \in JobIds, pb \in {Undef, "r2"} : updateJob("r1", j, JobBody(pb, Undef, UndefNum))
  \/ \E u \in {"a1", "r1", "r2", Anon}, j \in JobIds : getJob(u, j)

SpecViews == Init /\ [][NextViews]_vars

\* Status changes made through updateApplicationStatus alone.
NextAppStatus ==
  \/ createJob("r1", PlainJobBody)
  \/ createApplication("a1", 1, Undef, FALSE)
  \/ \E u \in {"r1", "r2"}, a \in AppIds, st \in StatusInputs :
       updateApplicationStatus(u, a, st)

SpecAppStatus == Init /\ [][NextAppStatus]_vars

\* The Interview requests and the Application status writes around them.
NextStatus ==
  \/ createJob("r1", PlainJobBody)
  \/ createApplication("a1", 1, Undef, FALSE)
  \/ \E u \in {"r1", "r2"}, a \in AppIds, st \in {"shortlisted", "pending"} :
       updateApplicationStatus(u, a, st)
  \/ \E u \in {"a1", "r1"}, a \in AppIds :
       updateApplication(u, a, AppBody(UndefNum, "hired", Undef))
  \/ \E u \in {"a1", "r1", "r2"}, a \in AppIds : createInterview(u, a, 1)
  \/ \E u \in {"a1", "r2"}, i \in IvIds, n \in BOOLEAN : updateInterview(u, i, 2, n)
  \/ \E u \in {"a1", "r2"}, i \in IvIds : deleteInterview(u, i)
  \/ \E u \in {"a1", "r2"}, i \in IvIds, st \in IvStatusInputs : updateInterviewStatus(u, i, st)
  \/ \E u \in {"a1", "r2"}, i \in IvIds : addFeedback(u, i, "fb")
  \/ \E u \in {"a1", "r2"}, i \in IvIds : rescheduleInterview(u, i, 2)

SpecStatus == Init /\ [][NextStatus]_vars

\* createApplication and deleteApplication requests against one Job, their
\* store operations interleaved.  The store starts as createJob by r1 with a
\* plain body leaves it.
InitOneJob ==
  /\ jobs = <<NewJob(JobBody("r1", Undef, UndefNum))>>
  /\ apps = <<>>
  /\ ivs = <<>>
  /\ made = [job |-> 1, app |-> 0, iv |-> 0, views |-> 0]
  /\ now = 0
  /\ sets = <<>>
  /\ procs = [p \in ProcIds |-> Idle]
  /\ resp = NoResp

NextConc ==
  \/ \E p \in ProcIds : CA_FindJob(p, "a1", 1)
  \/ \E p \in ProcIds : CA_FindExisting(p)
  \/ \E p \in ProcIds : CA_Create(p)
  \/ \E p \in ProcIds, a \in AppIds : DA_Find(p, "a1", a)
  \/ \E p \in ProcIds : DA_Delete(p)
  \/ \E p \in ProcIds : DA_FindJob(p)
  \/ \E p \in ProcIds : UAC_Count(p)
  \/ \E p \in ProcIds : UAC_Save(p)

SpecConc == InitOneJob /\ [][NextConc]_vars

\* createInterview requests, their store operations interleaved, against the
\* Applications that createJob and createApplication leave.
NextIvConc ==
  \/ createJob("r1", PlainJobBody)
  \/ \E j \in JobIds : createApplication("a1", j, Undef, FALSE)
  \/ \E p \in ProcIds, u \in {"r1", "r2"}, a \in AppIds : CI_FindApp(p, u, a, 1)
  \/ \E p \in ProcIds : CI_FindExisting(p)
  \/ \E p \in ProcIds : CI_Create(p)
  \/ \E p \in ProcIds : CI_SetStatus(p)

SpecIvConc == Init /\ [][NextIvConc]_vars


\* The operations on a Job, by its owner, by another recruiter and by an admin.
NextJobOwner ==
  \/ \E u \in Recruiters : createJob(u, PlainJobBody)
  \/ \E u \in {"r1", "r2", "adm"}, j \in JobIds :
       updateJob(u, j, JobBody(Undef, "paused", UndefNum))
  \/ \E u \in {"a1", "r1", "r2", "adm"}, j \in JobIds : deleteJob(u, j)
  \/ \E u \in {"r1", "r2", "adm"}, j \in JobIds, st \in {"closed", "bogus"} :
       toggleJobStatus(u, j, st)
  \/ \E u \in {"r1", "r2", "adm"}, j \in JobIds : duplicateJob(u, j)
  \/ \E u \in {"r1", "r2", "adm"}, j \in JobIds : getJobStats(u, j)

SpecJobOwner == Init /\ [][NextJobOwner]_vars

\* Reads and updates of single Applications by every kind of user, on Jobs
\* that may be deleted meanwhile.
NextAppAccess ==
  \/ \E u \in Recruiters : createJob(u, PlainJobBody)
  \/ \E j \in JobIds : deleteJob("r1", j)
  \/ \E j \in JobIds, rf \in BOOLEAN : createApplication("a1", j, Undef, rf)
  \/ \E u \in {"a1", "a2", "r1", "r2", "adm"}, a \in AppIds : getApplication(u, a)
  \/ \E u \in {"a1", "a2", "r1", "r2", "adm"}, a \in AppIds :
       updateApplication(u, a, AppBody(UndefNum, Undef, "cl"))
  \/ \E u \in {"a1", "a2", "r1", "r2", "adm"}, a \in AppIds, fe \in BOOLEAN :
       downloadResume(u, a, fe)

SpecAppAccess == Init /\ [][NextAppAccess]_vars

\* The list operations, asked by recruiters and an admin.
NextAppLists ==
  \/ \E u \in Recruiters : createJob(u, PlainJobBody)
  \/ \E u \in Applicants, j \in JobIds : createApplication(u, j, Undef, FALSE)
  \/ \E u \in {"a1", "r1", "r2", "adm"} : getApplications(u)
  \/ \E u \in {"a1", "r1", "r2", "adm"}, j \in JobIds : getApplicationsByJob(u, j)

SpecAppLists == Init /\ [][NextAppLists]_vars

\* updateApplication by the applicant and by the Job's owner, with bodies that
\* carry allowed and other fields.
NextAppUpdate ==
  \/ createJob("r1", PlainJobBody)
  \/ createApplication("a1", 1, Undef, FALSE)
  \/ \E a \in AppIds : updateApplicationStatus("r1", a, "shortlisted")
  \/ \E a \in AppIds, st \in {"hired", "bogus"}, cl \in {Undef, "cl"} :
       updateApplication("a1", a, AppBody(2, st, cl))
  \/ \E a \in AppIds : updateApplication("r1", a, AppBody(UndefNum, "rejected", Undef))

SpecAppUpdate == Init /\ [][NextAppUpdate]_vars

\* Status changes of Jobs that have Applications, by the owner, another
\* recruiter and an admin; updateJob is the way a Job gets back to draft.
NextJobStatus ==
  \/ createJob("r1", PlainJobBody)
  \/ createApplication("a1", 1, Undef, FALSE)
  \/ \E j \in JobIds : updateJob("r1", j, JobBody(Undef, "draft", UndefNum))
  \/ \E u \in {"r1", "r2", "adm"}, j \in JobIds, st \in JobStatusEnum \cup {"bogus"} :
       toggleJobStatus(u, j, st)

SpecJobStatus == Init /\ [][NextJobStatus]_vars

\* updateInterviewStatus asked again and again on the same Interviews, with
\* the owner's updateApplicationStatus in between.
NextIvRepeat ==
  \/ createJob("r1", PlainJobBody)
  \/ createApplication("a1", 1, Undef, FALSE)
  \/ \E a \in AppIds : updateApplicationStatus("r1", a, "shortlisted")
  \/ \E a \in AppIds : createInterview("r1", a, 1)
  \/ \E u \in {"a1", "r2"}, i \in IvIds, st \in {"completed", "confirmed"} :
       updateInterviewStatus(u, i, st)

SpecIvRepeat == Init /\ [][NextIvRepeat]_vars

\* The applicant dashboard, asked on stores that hold t Applications of a1, r
\* of them rejected by the owner of their Jobs: what t createJob requests by
\* r1, t createApplication requests by a1 and r updateApplicationStatus
\* requests by r1 leave.
InitApplicantStats ==
  \E t \in 0..MaxTotal : \E r \in 0..t :
    /\ jobs = [j \in 1..t |->
                 [NewJob(JobBody("r1", Undef, UndefNum)) EXCEPT !.applicationsCount = 1]]
    /\ apps = [a \in 1..t |->
                 IF a <= r
                 THEN [NewApplication("a1", a, Undef, FALSE) EXCEPT
                         !.status = "rejected", !.timeline = <<"rejected">>]
                 ELSE NewApplication("a1", a, Undef, FALSE)]
    /\ ivs = <<>>
    /\ made = [job |-> t, app |-> t, iv |-> 0, views |-> 0]
    /\ now = 0
    /\ sets = [a \in 1..t |-> IF a <= r THEN 1 ELSE 0]
    /\ procs = [p \in ProcIds |-> Idle]
    /\ resp = NoResp

NextApplicantStats ==
  \E u \in {"a1", "a2", "r1"} : getApplicantDashboard(u)

SpecApplicantStats == InitApplicantStats /\ [][NextApplicantStats]_vars

\* Every operation that writes an Application's status, with statuses inside
\* and outside the schema enum and the handlers' own lists.
NextAppEnum ==
  \/ createJob("r1", PlainJobBody)
  \/ createApplication("a1", 1, Undef, FALSE)
  \/ \E a \in AppIds, st \in {"shortlisted", "pending", "reviewing", "selected", "hired"} :
       updateApplicationStatus("r1", a, st)
  \/ \E u \in {"a1", "r1"}, a \in AppIds, st \in {"hired", "bogus", Unset} :
       updateApplication(u, a, AppBody(UndefNum, st, Undef))
  \/ \E a \in AppIds : createInterview("r1", a, 1)
  \/ \E i \in IvIds, st \in {"completed", "cancelled"} : updateInterviewStatus("r2", i, st)

SpecAppEnum == Init /\ [][NextAppEnum]_vars

\* The operations that follow a Job's creation: updates whose body may name
\* another owner, status changes, reads, duplicates, and Applications to it.
NextJobFrame ==
  \/ createJob("r1", PlainJobBody)
  \/ \E j \in JobIds, pb \in {Undef, "r2"} : updateJob("r1", j, JobBody(pb, Undef, UndefNum))
  \/ \E j \in JobIds : toggleJobStatus("r1", j, "paused")
  \/ \E u \in {"a1", "r1"}, j \in JobIds : getJob(u, j)
  \/ \E u \in {"r1", "adm"}, j \in JobIds : duplicateJob(u, j)
  \/ \E j \in JobIds : createApplication("a1", j, Undef, FALSE)
  \/ \E a \in AppIds : deleteApplication("a1", a)

SpecJobFrame == Init /\ [][NextJobFrame]_vars

\* updateInterviewStatus requests on the Interviews that createInterview
\* leaves, their save and their Application update interleaved.
NextIvStatusConc ==
  \/ createJob("r1", PlainJobBody)
  \/ createApplication("a1", 1, Undef, FALSE)
  \/ \E a \in AppIds : createInterview("r1", a, 1)
  \/ \E p \in ProcIds, i \in IvIds, st \in {"completed", "cancelled", "bogus"} :
       UIS_Find(p, "r1", i, st)
  \/ \E p \in ProcIds : UIS_Save(p)
  \/ \E p \in ProcIds : UIS_Cascade(p)

SpecIvStatusConc == Init /\ [][NextIvStatusConc]_vars

\* The recruiter dashboard, asked on stores that hold n Jobs, each posted by
\* r1 or r2, and one Application of a1 to each: what n createJob requests and
\* n createApplication requests leave.
InitRecruiterStats ==
  \E n \in 0..MaxListed : \E owner \in [1..n -> Recruiters] :
    /\ jobs = [j \in 1..n |->
                 [NewJob(JobBody(owner[j], Undef, UndefNum)) EXCEPT !.applicationsCount = 1]]
    /\ apps = [a \in 1..n |-> NewApplication("a1", a, Undef, FALSE)]
    /\ ivs = <<>>
    /\ made = [job |-> n, app |-> n, iv |-> 0, views |-> 0]
    /\ now = 0
    /\ sets = [a \in 1..n |-> 0]
    /\ procs = [p \in ProcIds |-> Idle]
    /\ resp = NoResp

NextRecruiterStats ==
  \E u \in {"r1", "r2", "a1"} : getRecruiterDashboard(u)

SpecRecruiterStats == InitRecruiterStats /\ [][NextRecruiterStats]_vars

\* createApplication against Jobs that get closed and whose deadline passes.
NextDeadline ==
  \/ createJob("r1", PlainJobBody)
  \/ \E j \in JobIds, st \in {"closed", "active"} : toggleJobStatus("r1", j, st)
  \/ Tick
  \/ \E u \in Applicants, j \in JobIds : createApplication(u, j, Undef, FALSE)

SpecDeadline == Init /\ [][NextDeadline]_vars

\* getJob requests on one Job, their load and their save interleaved.
NextViewsConc ==
  \/ \E p \in ProcIds, u \in {"a1", "r1", Anon}, j \in JobIds : GJ_Find(p, u, j)
  \/ \E p \in ProcIds : GJ_IncrementViews(p)

SpecViewsConc == InitOneJob /\ [][NextViewsConc]_vars

\* -------------------------------------------------------------------- claims
\* C1: after any sequence of createApplication and deleteApplication requests,
\* each run to completion, every Job's applicationsCount equals the number of
\* stored Applications whose job field is that Job.
C1_CountMatchesSequential ==
  \A j \in DOMAIN jobs : jobs[j].applicationsCount = LiveCount(j)

\* a delete has just brought a Job's count down to 1 while another Application
\* of that Job is still stored
C1_Witness ==
  /\ resp.op = "deleteApplication" /\ resp.code = 200
  /\ \E j \in DOMAIN jobs : jobs[j].applicationsCount = 1 /\ LiveCount(j) = 1
  /\ made.app >= 2

NoneInFlight == \A p \in ProcIds : procs[p] = Idle

\* the operations that change an Interview
InterviewMutations ==
  {"createInterview", "updateInterview", "deleteInterview", "updateInterviewStatus",
   "addFeedback", "rescheduleInterview"}

AppStatuses == [a \in DOMAIN apps |-> apps[a].status]

\* C3: an Application whose status was set N times after creation has exactly
\* N timeline entries (none when newly created).
C3_TimelineCountsSets ==
  \A a \in DOMAIN apps : Len(apps[a].timeline) = sets[a]

\* C4 as claimed: a successful updateApplicationStatus with the status the
\* Application already has still appends exactly one timeline entry.
C4_SameValueAppends ==
  [][\A a \in DOMAIN apps :
       (/\ resp'.op = "updateApplicationStatus" /\ resp'.code = 200
        /\ resp'.id = a /\ resp'.arg = apps[a].status)
       => Len(apps'[a].timeline) = Len(apps[a].timeline) + 1]_vars

\* C4 as amended: a successful updateApplicationStatus appends exactly one
\* timeline entry, the new status, when the new status differs from the
\* stored one, and leaves the timeline as it is when it is the same.
C4_AppendsIffChanged ==
  [][\A a \in DOMAIN apps :
       (resp'.op = "updateApplicationStatus" /\ resp'.code = 200 /\ resp'.id = a)
       => /\ apps'[a].status = resp'.arg
          /\ apps'[a].timeline =
               IF resp'.arg = apps[a].status THEN apps[a].timeline
               ELSE Append(apps[a].timeline, resp'.arg)]_vars

\* the second of two successful updateApplicationStatus requests with the same
\* status has been answered: two status writes, one timeline entry
C4_Witness ==
  /\ resp.op = "updateApplicationStatus" /\ resp.code = 200
  /\ resp.id \in DOMAIN apps
  /\ apps[resp.id].status = resp.arg
  /\ sets[resp.id] = 2
  /\ apps[resp.id].timeline = <<resp.arg>>

\* C5: after a successful updateInterviewStatus with status s the parent
\* Application's status is interviewed (s = completed), shortlisted
\* (s = cancelled), and for any other s the parent Application is unchanged.
C5_CascadeOnInterviewStatus ==
  [][(resp'.op = "updateInterviewStatus" /\ resp'.code = 200 /\ resp'.id \in DOMAIN ivs)
       => LET a == ivs[resp'.id].application
              s == resp'.arg
          IN a \in DOMAIN apps =>
               /\ a \in DOMAIN apps'
               /\ ivs'[resp'.id].status = s
               /\ s = "completed" => apps'[a].status = "interviewed"
               /\ s = "cancelled" => apps'[a].status = "shortlisted"
               /\ s \notin {"completed", "cancelled"} => apps'[a] = apps[a]]_vars

\* an Interview was just set to completed and its Application is interviewed
C5_Witness ==
  /\ resp.op = "updateInterviewStatus" /\ resp.code = 200 /\ resp.arg = "completed"
  /\ resp.id \in DOMAIN ivs
  /\ ivs[resp.id].status = "completed"
  /\ ivs[resp.id].application \in DOMAIN apps
  /\ apps[ivs[resp.id].application].status = "interviewed"

\* C6 as claimed: a request for an Interview mutating operation by a user whose role is
\* applicant changes no Interview and no Application status.
C6_ApplicantNeverMutatesInterviews ==
  [][(resp'.op \in InterviewMutations /\ resp'.user \in Applicants)
       => (ivs' = ivs /\ AppStatuses' = AppStatuses)]_vars

\* C6 as amended: a request by a user with role applicant for createInterview,
\* updateInterview, deleteInterview or addFeedback is refused and changes no
\* Interview and no Application status; updateInterviewStatus and
\* rescheduleInterview are open to every authenticated user, so an applicant's
\* request for them on a stored Interview takes effect.
C6_ApplicantRefusedWhereAuthorized ==
  [][resp'.user \in Applicants =>
       /\ resp'.op \in {"createInterview", "updateInterview", "deleteInterview", "addFeedback"}
            => (resp'.code = 403 /\ ivs' = ivs /\ AppStatuses' = AppStatuses)
       /\ (resp'.op = "updateInterviewStatus" /\ resp'.id \in DOMAIN ivs
             /\ IvStatusValid(resp'.arg))
            => (resp'.code = 200 /\ ivs'[resp'.id].status = resp'.arg)
       /\ (resp'.op = "rescheduleInterview" /\ resp'.id \in DOMAIN ivs)
            => (resp'.code = 200 /\ ivs'[resp'.id].status = "scheduled")]_vars

\* an applicant has cancelled an Interview and its Application went back to
\* shortlisted
C6_Witness ==
  /\ resp.op = "updateInterviewStatus" /\ resp.code = 200 /\ resp.user \in Applicants
  /\ resp.id \in DOMAIN ivs
  /\ ivs[resp.id].status = "cancelled"
  /\ ivs[resp.id].application \in DOMAIN apps
  /\ apps[ivs[resp.id].application].status = "shortlisted"

\* C8: with no request in flight, every stored Job's applicationsCount equals
\* the number of stored Applications that reference it, whatever API
\* operations ran before.
C8_CountMatchesAfterAnyOperation ==
  NoneInFlight =>
    \A j \in DOMAIN jobs : jobs[j].applicationsCount = LiveCount(j)

\* C10: a successful getJob adds exactly 1 to the Job's viewsCount when the
\* caller is unauthenticated or is not the Job's postedBy, and leaves it
\* unchanged when the caller is the Job's postedBy.
C10_ViewsCountedForNonOwners ==
  [][(resp'.op = "getJob" /\ resp'.code = 200 /\ resp'.id \in DOMAIN jobs)
       => LET j == resp'.id
          IN /\ j \in DOMAIN jobs'
             /\ jobs'[j].viewsCount =
                  IF resp'.user = Anon \/ resp'.user # jobs[j].postedBy
                  THEN jobs[j].viewsCount + 1
                  ELSE jobs[j].viewsCount]_vars

\* the owner has just read a Job that others had read before: its count is
\* what the others left
C10_Witness ==
  /\ resp.op = "getJob" /\ resp.code = 200 /\ resp.id \in DOMAIN jobs
  /\ resp.user = jobs[resp.id].postedBy
  /\ jobs[resp.id].viewsCount = 1

\* C2: at no time are two stored Applications of the same applicant for the
\* same Job, also when createApplication requests of one applicant for one
\* Job interleave their existence check and their insert.
C2_OneApplicationPerPair ==
  \A x, y \in DOMAIN apps :
    (apps[x].applicant = apps[y].applicant /\ apps[x].job = apps[y].job) => x = y

\* a request that had passed the existence check had its insert refused by
\* the unique index, the other request's Application being stored
C2_Witness ==
  /\ resp.op = "createApplication" /\ resp.code = 500 /\ resp.arg = "duplicate"
  /\ FindOneApplication(apps, resp.id, resp.user) # {}

\* C9: once every createApplication and deleteApplication request against a
\* Job has completed, the Job's applicationsCount equals the live count of
\* its Applications, however their store operations interleaved.
C9_CountSettlesAfterInterleaving ==
  (\A p \in ProcIds : At(p, "idle")) =>
    \A j \in DOMAIN jobs :
      jobs[j].applicationsCount = Cardinality({a \in DOMAIN apps : apps[a].job = j})

\* C7: at no time do two stored Interviews reference the same Application,
\* also when createInterview requests for one Application interleave their
\* existence check and their insert.
C7_OneInterviewPerApplication ==
  \A x, y \in DOMAIN ivs : ivs[x].application = ivs[y].application => x = y

\* C11: once N getJob requests by non-owners on a Job, interleaved, have all
\* been answered, the Job's viewsCount is N greater than before.
C11_NoViewLost ==
  NoneInFlight => jobs[1].viewsCount = made.views

\* C12: createApplication against a stored Job that is not active answers 400
\* 'Job is not accepting applications', and against an active Job whose
\* applicationDeadline is earlier than now 400 'Application deadline has
\* passed'; either way no Application is stored and no Job changes.
C12_ClosedOrExpiredJobRefuses ==
  [][(resp'.op = "createApplication" /\ resp'.user \in Applicants /\ now' = now)
       => LET j == IF resp'.code = 201 THEN apps'[resp'.id].job ELSE resp'.id
          IN j \in DOMAIN jobs =>
               /\ jobs[j].status # "active"
                    => (resp'.code = 400 /\ resp'.arg = NotAccepting
                        /\ apps' = apps /\ jobs' = jobs)
               /\ (jobs[j].status = "active" /\ jobs[j].applicationDeadline < now)
                    => (resp'.code = 400 /\ resp'.arg = DeadlinePassed
                        /\ apps' = apps /\ jobs' = jobs)]_vars

\* an applicant was refused for the deadline on an active Job that another
\* applicant had applied to in time
C12_Witness ==
  /\ resp.op = "createApplication" /\ resp.code = 400 /\ resp.arg = DeadlinePassed
  /\ resp.id \in DOMAIN jobs
  /\ jobs[resp.id].status = "active"
  /\ jobs[resp.id].applicationDeadline < now
  /\ jobs[resp.id].applicationsCount = 1 /\ LiveCount(resp.id) = 1

\* C13 as claimed: createApplication by an applicant who already has a stored
\* Application for the Job answers 400 'You have already applied for this
\* job', stores nothing and changes neither the Application nor the Job.
C13_SecondApplicationRefused ==
  [][(resp'.op = "createApplication" /\ now' = now)
       => LET j == IF resp'.code = 201 THEN apps'[resp'.id].job ELSE resp'.id
          IN (\E a \in DOMAIN apps : apps[a].applicant = resp'.user /\ apps[a].job = j)
               => (resp'.code = 400 /\ resp'.arg = AlreadyApplied
                   /\ apps' = apps /\ jobs' = jobs)]_vars

\* C13 as amended: the second createApplication answers 400, stores nothing
\* and changes neither the Application nor the Job; the message is 'You have
\* already applied for this job' when the Job is still active with its
\* deadline not passed, and the message of the earlier check otherwise.
C13_SecondApplicationRefusedInOrder ==
  [][(resp'.op = "createApplication" /\ now' = now)
       => LET j == IF resp'.code = 201 THEN apps'[resp'.id].job ELSE resp'.id
          IN (/\ \E a \in DOMAIN apps : apps[a].applicant = resp'.user /\ apps[a].job = j
              /\ j \in DOMAIN jobs)
               => /\ resp'.code = 400 /\ apps' = apps /\ jobs' = jobs
                  /\ resp'.arg =
                       IF jobs[j].status # "active" THEN NotAccepting
                       ELSE IF now > jobs[j].applicationDeadline THEN DeadlinePassed
                       ELSE AlreadyApplied]_vars

\* an applicant who had applied was refused as a duplicate on a Job that is
\* still open
C13_Witness ==
  /\ resp.op = "createApplication" /\ resp.code = 400 /\ resp.arg = AlreadyApplied
  /\ resp.id \in DOMAIN jobs
  /\ \E a \in DOMAIN apps : apps[a].applicant = resp.user /\ apps[a].job = resp.id
  /\ jobs[resp.id].applicationsCount = LiveCount(resp.id)

C15_ApplicationAccess ==
  [][(resp'.op \in {"getApplication", "updateApplication", "downloadResume"}
        /\ resp'.user # Anon)
       => LET u == resp'.user
              a == resp'.id
          IN IF a \notin DOMAIN apps THEN resp'.code = 404
             ELSE IF \/ apps[a].applicant = u
                     \/ (apps[a].job \in DOMAIN jobs /\ jobs[apps[a].job].postedBy = u)
                     \/ role(u) = "admin"
               THEN \/ resp'.code = 200
                    \/ resp'.op = "downloadResume" /\ resp'.code = 404
               ELSE resp'.code = 403 /\ apps' = apps]_vars

\* C16: what getApplications and getApplicationsByJob return to a recruiter
\* are Applications of Jobs that recruiter posted, and no others.
C16_RecruiterListsOwnJobsOnly ==
  (resp.op \in {"getApplications", "getApplicationsByJob"} /\ role(resp.user) = "recruiter")
    => \A a \in resp.data :
         /\ a \in DOMAIN apps
         /\ apps[a].job \in DOMAIN jobs
         /\ jobs[apps[a].job].postedBy = resp.user

\* C17: deleteApplication on a stored Application removes it (and recounts
\* its Job) when the caller is its applicant or an admin; for any other
\* authenticated user, the Job's owner included, it answers 403 and changes
\* neither the Applications nor any Job.
C17_DeleteByApplicantOrAdmin ==
  [][(resp'.op = "deleteApplication" /\ resp'.user # Anon /\ resp'.id \in DOMAIN apps)
       => LET u == resp'.user
              a == resp'.id
          IN IF apps[a].applicant = u \/ role(u) = "admin"
             THEN /\ resp'.code = 200
                  /\ apps' = Remove(apps, a)
                  /\ \A j \in DOMAIN jobs' :
                       j = apps[a].job =>
                         jobs'[j].applicationsCount = jobs[j].applicationsCount - 1
             ELSE resp'.code = 403 /\ apps' = apps /\ jobs' = jobs]_vars

\* the owner of the Job was refused the deletion of an Application to it
C17_Witness ==
  /\ resp.op = "deleteApplication" /\ resp.code = 403
  /\ resp.id \in DOMAIN apps
  /\ apps[resp.id].job \in DOMAIN jobs
  /\ jobs[apps[resp.id].job].postedBy = resp.user
  /\ jobs[apps[resp.id].job].applicationsCount = LiveCount(apps[resp.id].job)

\* C18: updateApplication by the Application's applicant, who neither owns
\* its Job nor is an admin, answers 200 and changes nothing of the
\* Application outside the allowed fields: status, timeline, job and
\* applicant stay as they are, whatever the body carried.
C18_ApplicantUpdatesAllowedFieldsOnly ==
  [][(/\ resp'.op = "updateApplication" /\ resp'.id \in DOMAIN apps
      /\ apps[resp'.id].applicant = resp'.user
      /\ ~isJobOwner(jobs, apps[resp'.id], resp'.user)
      /\ role(resp'.user) # "admin")
       => LET a == resp'.id
          IN /\ resp'.code = 200
             /\ DOMAIN apps' = DOMAIN apps
             /\ \A x \in DOMAIN apps \ {a} : apps'[x] = apps[x]
             /\ \A f \in DOMAIN apps[a] \ allowedFields : apps'[a][f] = apps[a][f]
             /\ jobs' = jobs]_vars

\* the applicant has rewritten the cover letter of an Application that the
\* Job's owner had shortlisted: status and timeline are the owner's
C18_Witness ==
  /\ resp.op = "updateApplication" /\ resp.code = 200
  /\ resp.id \in DOMAIN apps
  /\ apps[resp.id].applicant = resp.user
  /\ apps[resp.id].coverLetter = "cl"
  /\ apps[resp.id].status = "shortlisted"
  /\ apps[resp.id].timeline = <<"shortlisted">>

\* C19: a successful reschedule stores the Interview's previous scheduledDate
\* in rescheduledFrom, records the reason and sets status to rescheduled,
\* together with the new date, in one write.
C19_RescheduleKeepsPreviousDate ==
  [][(resp'.op = "rescheduleInterview" /\ resp'.code = 200 /\ resp'.id \in DOMAIN ivs)
       => \E d \in 0..MaxTime, reason \in {Undef, "reason"} :
            ivs' = [ivs EXCEPT ![resp'.id] = reschedule(@, d, reason)]]_vars

\* C20: after a successful deleteInterview the Interview is no longer stored
\* and the Application it referenced has status shortlisted, whatever its
\* status was.
C20_DeleteInterviewRevertsApplication ==
  [][(resp'.op = "deleteInterview" /\ resp'.code = 200 /\ resp'.id \in DOMAIN ivs)
       => LET a == ivs[resp'.id].application
          IN /\ resp'.id \notin DOMAIN ivs'
             /\ a \in DOMAIN apps =>
                  (a \in DOMAIN apps' /\ apps'[a].status = "shortlisted")]_vars

\* an Interview was deleted: its Application, whose status had been written
\* at least twice, is shortlisted and has no Interview
C20_Witness ==
  /\ resp.op = "deleteInterview" /\ resp.code = 200
  /\ resp.id \notin DOMAIN ivs
  /\ \E a \in DOMAIN apps :
       /\ apps[a].status = "shortlisted"
       /\ FindOneInterview(ivs, a) = {}
       /\ sets[a] >= 2

\* C21: updateApplicationStatus by the Job's owner or an admin, with any value
\* t of the Application status enum, answers 200 and leaves the Application
\* with status t, whatever its status was.
C21_AnyEnumTransitionSucceeds ==
  [][(/\ resp'.op = "updateApplicationStatus" /\ resp'.id \in DOMAIN apps
      /\ resp'.arg \in AppStatusEnum
      /\ apps[resp'.id].job \in DOMAIN jobs
      /\ ~NotJobOwnerNorAdmin(jobs[apps[resp'.id].job], resp'.user))
       => (resp'.code = 200 /\ apps'[resp'.id].status = resp'.arg)]_vars

\* C22 as claimed: toggleJobStatus on a stored Job by its owner or an admin,
\* with any t of the Job status enum, answers 200, sets the Job's status to t
\* and changes no Application.
C22_AnyJobStatusAccepted ==
  [][(/\ resp'.op = "toggleJobStatus" /\ resp'.id \in DOMAIN jobs
      /\ resp'.arg \in JobStatusEnum
      /\ ~NotJobOwnerNorAdmin(jobs[resp'.id], resp'.user))
       => /\ resp'.code = 200
          /\ jobs' = [jobs EXCEPT ![resp'.id].status = resp'.arg]
          /\ apps' = apps]_vars

\* C22 as amended: toggleJobStatus on a stored Job by its owner or an admin
\* answers 200 and sets the Job's status to t, from any status, when t is
\* active, paused, closed or filled; with t = draft it answers 400 and leaves
\* the Job as it is; either way no Application changes.
C22_JobStatusAcceptedButDraft ==
  [][(/\ resp'.op = "toggleJobStatus" /\ resp'.id \in DOMAIN jobs
      /\ resp'.arg \in JobStatusEnum
      /\ ~NotJobOwnerNorAdmin(jobs[resp'.id], resp'.user))
       => /\ apps' = apps
          /\ IF resp'.arg = "draft"
             THEN resp'.code = 400 /\ jobs' = jobs
             ELSE /\ resp'.code = 200
                  /\ jobs' = [jobs EXCEPT ![resp'.id].status = resp'.arg]]_vars

\* the owner has set a Job that has an Application to filled: the Application
\* is as it was submitted
C22_Witness ==
  /\ resp.op = "toggleJobStatus" /\ resp.code = 200 /\ resp.arg = "filled"
  /\ resp.id \in DOMAIN jobs
  /\ jobs[resp.id].status = "filled"
  /\ jobs[resp.id].postedBy = resp.user
  /\ \E a \in DOMAIN apps : apps[a].job = resp.id /\ apps[a].status = "submitted"

C24_SuccessRateIsRounded ==
  (resp.op = "getApplicantDashboard" /\ resp.code = 200)
    => LET T == CountApplications(apps, resp.user, Undef)
           R == CountApplications(apps, resp.user, "rejected")
       IN /\ resp.data.successRate \in 0..100
          /\ resp.data.successRate =
               IF T > 0 THEN (200 * (T - R) + T) \div (2 * T) ELSE 0

\* C25: a createApplication or deleteApplication request answers with success
\* only once it has saved the Job's applicationsCount (a save of a value
\* equal to the one the Job was loaded with writes nothing), and the count it
\* saves was read after the request's own insert (respectively delete): no
\* such request is answered before its counter write.
C25_ResponseAfterCountWrite ==
  [][\A p \in ProcIds :
       /\ (procs[p] # Idle /\ procs'[p] = Idle /\ resp'.code \in {200, 201}
           /\ procs[p].job \in DOMAIN jobs)
            => /\ procs[p].pc = "save"
               /\ jobs'[procs[p].job].applicationsCount =
                    IF procs[p].count # procs[p].loaded.applicationsCount
                    THEN procs[p].count
                    ELSE jobs[procs[p].job].applicationsCount
       /\ (procs[p] # Idle /\ procs[p].pc # "save"
           /\ procs'[p] # Idle /\ procs'[p].pc = "save")
            => /\ procs[p].pc = "count"
               /\ procs'[p].count = CountDocuments(apps, procs[p].job)
               /\ procs[p].op = "createApplication" =>
                    (procs[p].app >= 1 /\ procs[p].app <= made.app)
               /\ procs[p].op = "deleteApplication" =>
                    procs[p].app \notin DOMAIN apps]_vars

\* a createApplication was answered 201 after a deleteApplication had been
\* answered: the counter shows the Application just stored
C25_Witness ==
  /\ resp.op = "createApplication" /\ resp.code = 201
  /\ NoneInFlight
  /\ resp.id = 2 /\ resp.id \in DOMAIN apps
  /\ jobs[1].applicationsCount = 1

\* C26: every stored Application's status is one of the 13 values of the
\* schema enum after every operation, and a createApplication,
\* updateApplication or updateApplicationStatus that is refused leaves the
\* Applications as they were.
C26_StatusAlwaysInEnum ==
  [][/\ \A a \in DOMAIN apps' : apps'[a].status \in AppStatusEnum
     /\ (/\ resp'.op \in {"createApplication", "updateApplication",
                          "updateApplicationStatus"}
         /\ resp'.code \notin {200, 201})
          => apps' = apps]_vars

\* C27: every stored Application references a stored Job and every stored
\* Interview references a stored Application.
C27_NoDanglingReference ==
  /\ \A a \in DOMAIN apps : apps[a].job \in DOMAIN jobs
  /\ \A i \in DOMAIN ivs : ivs[i].application \in DOMAIN apps

\* C28: a Job's postedBy is the user who created it and no later operation
\* changes it; a duplicate made by duplicateJob has the original's postedBy,
\* status draft, applicationsCount 0 and viewsCount 0, and leaves the
\* original as it was.
C28_PostedByFixed ==
  [][/\ \A j \in DOMAIN jobs \cap DOMAIN jobs' : jobs'[j].postedBy = jobs[j].postedBy
     /\ (resp'.op = "createJob" /\ resp'.code = 201)
          => jobs'[resp'.id].postedBy = resp'.user
     /\ (resp'.op = "duplicateJob" /\ resp'.code = 201)
          => \E j \in DOMAIN jobs :
               /\ ~NotJobOwnerNorAdmin(jobs[j], resp'.user)
               /\ jobs' = Put(jobs, resp'.id,
                              [jobs[j] EXCEPT !.status = "draft",
                                              !.applicationsCount = 0,
                                              !.viewsCount = 0])]_vars

\* C29: once the updateInterviewStatus requests on an Interview have all been
\* answered, however their saves and their Application updates interleaved,
\* the Application's status matches the Interview's: interviewed for a
\* completed Interview, shortlisted for a cancelled one.
C29_ApplicationFollowsInterview ==
  NoneInFlight =>
    \A i \in DOMAIN ivs :
      ivs[i].application \in DOMAIN apps =>
        /\ ivs[i].status = "completed" => apps[ivs[i].application].status = "interviewed"
        /\ ivs[i].status = "cancelled" => apps[ivs[i].application].status = "shortlisted"

\* C30: the recruiter dashboard's totalApplications is the number of stored
\* Applications whose Job is posted by that recruiter, however many there are
\* and whatever Applications other recruiters' Jobs have.
C30_TotalApplicationsOfOwnJobs ==
  (resp.op = "getRecruiterDashboard" /\ resp.code = 200)
    => resp.data.totalApplications =
         Cardinality({a \in DOMAIN apps :
                        apps[a].job \in DOMAIN jobs
                        /\ jobs[apps[a].job].postedBy = resp.user})

====
